---- MODULE Spec2Model ----
(***************************************************************************)
(* A model of the `Views` derive macro of viu (src/viu/src/lib.rs).        *)
(*                                                                         *)
(* One behaviour is one invocation of views_derive on one DeriveInput.     *)
(* The input is chosen in Init and never changes; the actions are the      *)
(* statements of views_derive_impl in program order.  Token streams are    *)
(* sequences of token trees, HashSet / HashMap values are sets / functions *)
(* whose iteration order is a nondeterministic choice, and the emitted     *)
(* items are records that keep every position the quote! templates fill.   *)
(*                                                                         *)
(* Identifiers are plain (non-raw) identifiers: for these                  *)
(* Ident::new(id.to_string()) = id, so names are carried as strings.       *)
(***************************************************************************)
EXTENDS Integers, Sequences, FiniteSets, TLC

VARIABLES
    input,            \* the syn::DeriveInput handed to views_derive
    pc,               \* position inside views_derive / views_derive_impl
    gens_with_bounds, \* line 57
    gens,             \* line 58
    fields,           \* line 59: the FieldsNamed returned by guard_named_struct
    view_type_names,  \* line 60: HashSet<String>
    pending,          \* the part of view_type_names the loop of line 63 has not visited
    view_structs,     \* line 62: HashMap<String, HashMap<String, (vis, Sharable, ty)>>
    to_emit,          \* the keys of view_structs the loop of line 69 has not visited
    result,           \* line 68: the TokenStream under construction, a sequence of items
    error,            \* the syn::Error of the pass: "none", "shape" or "syntax"
    output,           \* what views_derive hands back to the compiler
    nparsed,          \* history: number of syn::parse2::<IdentTuple> calls made so far
    pass,             \* history: 1 for the first expansion of the record, 2 for a re-expansion
    first_output,     \* history: the output of the first expansion
    view              \* an instance of an emitted view type at run time, or NoView

vars == <<input, pc, gens_with_bounds, gens, fields, view_type_names, pending,
          view_structs, to_emit, result, error, output, nparsed, pass,
          first_output, view>>

-----------------------------------------------------------------------------
(* Bounds of the model *)

\* Total number of attributes on the record and its fields.
MaxAttrs == 3
\* Number of nested reborrow calls on one view instance.
MaxDepth == 3
\* Borrow scopes are 1..MaxScope; a larger number is a longer scope.
MaxScope == 3

-----------------------------------------------------------------------------
(* Constants of the program *)

VIEW_AS == "view_as"
REF_IN == "ref_in"
MUT_IN == "mut_in"

Ref == "Ref"
Mut == "Mut"

REF_LIFETIME == "'__ref__"
MUT_LIFETIME == "'__mut__"
BRW_LIFETIME == "'__brw__"

-----------------------------------------------------------------------------
(* Token trees (proc_macro2::TokenTree) *)

Tok(t, s) == [t |-> t, s |-> s, inner |-> <<>>]
Id(s) == Tok("ident", s)
Comma == Tok("punct", ",")
Paren(inner) == [t |-> "paren", s |-> "", inner |-> inner]

ParseOk(elems) == [ok |-> TRUE, elems |-> elems]
ParseErr == [ok |-> FALSE, elems |-> <<>>]

\* Punctuated::<Ident, Token![,]>::parse_terminated: idents separated by
\* commas, a trailing comma allowed, the whole content consumed.
RECURSIVE parse_terminated(_, _, _)
parse_terminated(content, i, acc) ==
    IF i > Len(content) THEN ParseOk(acc)
    ELSE IF content[i].t # "ident" THEN ParseErr
    ELSE IF i + 1 > Len(content) THEN ParseOk(Append(acc, content[i].s))
    ELSE IF content[i + 1] # Comma THEN ParseErr
    ELSE parse_terminated(content, i + 2, Append(acc, content[i].s))

\* syn::parse2::<IdentTuple>(tokens): IdentTuple::parse, then parse2's
\* requirement that no token is left over.
IdentTupleParse(tokens) ==
    IF tokens = <<>> THEN ParseOk(<<>>)
    ELSE IF Head(tokens).t # "paren" THEN ParseErr
    ELSE LET elems == parse_terminated(Head(tokens).inner, 1, <<>>)
         IN  IF ~elems.ok THEN ParseErr
             ELSE IF Len(tokens) > 1 THEN ParseErr
             ELSE elems

-----------------------------------------------------------------------------
(* HashMap / HashSet *)

EmptyMap == <<>>

\* An insert that keeps the entry already present (entry().or_insert).
MapInsertKeepFirst(m, k, v) ==
    [x \in (DOMAIN m) \cup {k} |-> IF x \in DOMAIN m THEN m[x] ELSE v]

MapInsert(m, k, v) ==
    [x \in (DOMAIN m) \cup {k} |-> IF x = k THEN v ELSE m[x]]

\* The orders in which an iterator over a hash table may yield its keys.
IterOrders(S) ==
    {o \in [1..Cardinality(S) -> S] : \A i, j \in DOMAIN o : o[i] = o[j] => i = j}

-----------------------------------------------------------------------------
(* The inputs *)

Attr(path, tokens) == [path |-> path, tokens |-> tokens]

NoArgs == <<>>
ArgsA == <<Paren(<<Id("A")>>)>>
ArgsB == <<Paren(<<Id("B")>>)>>
ArgsAB == <<Paren(<<Id("A"), Comma, Id("B")>>)>>
ArgsAA == <<Paren(<<Id("A"), Comma, Id("A"), Comma>>)>>
\* `= "A"`: not parenthesized
BadNameValue == <<Tok("punct", "="), Tok("lit", "A")>>
\* `(A B)`: no comma between the identifiers
BadNoComma == <<Paren(<<Id("A"), Id("B")>>)>>
\* `(A) B`: tokens after the parenthesized list
BadTrailing == <<Paren(<<Id("A")>>), Id("B")>>

DocAttr == Attr("doc", <<Tok("punct", "="), Tok("lit", "text")>>)

RecordAttrs ==
    {Attr(VIEW_AS, p) : p \in {NoArgs, ArgsA, ArgsAB, ArgsAA, BadNameValue}}
        \cup {DocAttr}

FieldAttrs ==
    {Attr(REF_IN, p) : p \in {ArgsA, ArgsB, ArgsAB, BadNoComma}}
        \cup {Attr(MUT_IN, p) : p \in {ArgsA, ArgsB, ArgsAB, BadTrailing}}
        \cup {DocAttr}

GenericParam(kind, name, bounds, ty) ==
    [kind |-> kind, attrs |-> <<>>, name |-> name, bounds |-> bounds, ty |-> ty]

LifetimeParam(name) == GenericParam("lifetime", name, <<>>, "")

Signatures ==
    { [vis |-> "pub", params |-> <<>>, where_clause |-> "none"],
      [vis |-> "inherited",
       params |-> << GenericParam("lifetime", "'a", <<>>, ""),
                     GenericParam("type", "T", <<"Clone", "'a">>, ""),
                     GenericParam("const", "N", <<>>, "usize") >>,
       where_clause |-> "where T: Default"] }

Shapes == {"named", "tuple", "unit", "enum", "union"}

Field(name, vis, ty, attrs) == [ident |-> name, vis |-> vis, ty |-> ty, attrs |-> attrs]

DeriveInput(sig, attrs, shape, xattrs, yattrs) ==
    [vis |-> sig.vis,
     generics |-> [params |-> sig.params, where_clause |-> sig.where_clause],
     attrs |-> attrs,
     data |-> [shape |-> shape,
               named |-> << Field("x", "pub", "i32", xattrs),
                            Field("y", "inherited", "String", yattrs) >>]]

\* No instance of a view type exists yet.  ref_scope and mut_scope are the
\* instance's two scope arguments, bound maps each field to the scope of the
\* reference it holds; depth, orig_ref, orig_fields and last_brw are history.
NoView ==
    [name |-> "", ref_scope |-> 0, mut_scope |-> 0, bound |-> <<>>, depth |-> 0,
     orig_ref |-> 0, orig_fields |-> {}, last_brw |-> 0]

\* The state at the call of views_derive, before line 50 has run.
Fresh ==
    /\ pc = "start"
    /\ gens_with_bounds = <<>>
    /\ gens = <<>>
    /\ fields = <<>>
    /\ view_type_names = {}
    /\ pending = {}
    /\ view_structs = EmptyMap
    /\ to_emit = {}
    /\ result = <<>>
    /\ error = "none"
    /\ output = <<>>
    /\ nparsed = 0
    /\ view = NoView

\* Every record with at most MaxAttrs attributes in all; a declaration that
\* is not a named-field struct carries them on the record and its first member.
Init ==
    /\ \E a \in 0..MaxAttrs : \E b \in 0..(MaxAttrs - a) : \E c \in 0..(MaxAttrs - a - b) :
         \E sig \in Signatures, shape \in Shapes :
           \E ra \in [1..a -> RecordAttrs], xa \in [1..b -> FieldAttrs],
              ya \in [1..c -> FieldAttrs] :
             /\ shape # "named" => c = 0 /\ sig.vis = "pub"
             /\ input = DeriveInput(sig, ra, shape, xa, ya)
    /\ Fresh
    /\ pass = 1
    /\ first_output = <<>>

-----------------------------------------------------------------------------
(* The functions of the pass *)

guard_named_struct(ty) ==
    IF ty.shape = "named"
    THEN [ok |-> TRUE, fields |-> ty.named]
    ELSE [ok |-> FALSE, fields |-> <<>>]

\* An elision that strips nothing.
elide_nothing(gs) == gs

elide_generics_bounds(gs) ==
    [i \in DOMAIN gs |->
        IF gs[i].kind \in {"type", "lifetime"}
        THEN [gs[i] EXCEPT !.attrs = <<>>, !.bounds = <<>>]
        ELSE gs[i]]

Elems(seq) == {seq[i] : i \in DOMAIN seq}

\* The for_ch! loop of view_type_names_from_attrs from attribute i on;
\* `parsed` counts the parse2 calls made.
RECURSIVE names_from(_, _, _, _)
names_from(attrs, i, names, n) ==
    IF i > Len(attrs) THEN [ok |-> TRUE, names |-> names, parsed |-> n]
    ELSE IF attrs[i].path # VIEW_AS THEN names_from(attrs, i + 1, names, n)
    ELSE LET idents == IdentTupleParse(attrs[i].tokens)
         IN  IF ~idents.ok
             THEN [ok |-> FALSE, names |-> {}, parsed |-> n + 1]
             ELSE names_from(attrs, i + 1, names \cup Elems(idents.elems), n + 1)

\* A collection that stops after the first view_as attribute.
names_first_attr_only(attrs) ==
    LET I == {i \in DOMAIN attrs : attrs[i].path = VIEW_AS}
    IN  IF I = {} THEN names_from(attrs, 1, {}, 0)
        ELSE names_from(SubSeq(attrs, 1, CHOOSE i \in I : \A j \in I : i <= j), 1, {}, 0)

view_type_names_from_attrs(attrs) == names_from(attrs, 1, {}, 0)

\* A block without the filter of lines 160 / 169: the field joins every view.
attr_block_any_view(key, share, view_name, field, attr, res) ==
    IF attr.path # key THEN [ok |-> TRUE, map |-> res, parsed |-> 0]
    ELSE LET view_idents == IdentTupleParse(attr.tokens)
         IN  IF ~view_idents.ok THEN [ok |-> FALSE, map |-> res, parsed |-> 1]
             ELSE [ok |-> TRUE, parsed |-> 1,
                   map |-> MapInsert(res, field.ident,
                                     [vis |-> field.vis, share |-> share, ty |-> field.ty])]

\* One inner for_ch! block of view_type_fields (lines 156-163 with key REF_IN
\* and share Ref, lines 165-172 with key MUT_IN and share Mut).  Every
\* matching identifier inserts the same entry, so the inserts of one
\* attribute collapse into one.
attr_block(key, share, view_name, field, attr, res) ==
    IF attr.path # key THEN [ok |-> TRUE, map |-> res, parsed |-> 0]
    ELSE LET view_idents == IdentTupleParse(attr.tokens)
         IN  IF ~view_idents.ok THEN [ok |-> FALSE, map |-> res, parsed |-> 1]
             ELSE IF view_name \in Elems(view_idents.elems)
             THEN [ok |-> TRUE, parsed |-> 1,
                   map |-> MapInsert(res, field.ident,
                                     [vis |-> field.vis, share |-> share, ty |-> field.ty])]
             ELSE [ok |-> TRUE, map |-> res, parsed |-> 1]

\* The outer loops of view_type_fields from attribute a of field f on.
RECURSIVE fields_from(_, _, _, _, _, _)
fields_from(view_name, fs, f, a, res, n) ==
    IF f > Len(fs) THEN [ok |-> TRUE, map |-> res, parsed |-> n]
    ELSE IF a > Len(fs[f].attrs) THEN fields_from(view_name, fs, f + 1, 1, res, n)
    ELSE LET b1 == attr_block(REF_IN, Ref, view_name, fs[f], fs[f].attrs[a], res)
             b2 == attr_block(MUT_IN, Mut, view_name, fs[f], fs[f].attrs[a], b1.map)
         IN  IF ~b1.ok THEN [ok |-> FALSE, map |-> EmptyMap, parsed |-> n + b1.parsed]
             ELSE IF ~b2.ok
             THEN [ok |-> FALSE, map |-> EmptyMap, parsed |-> n + b1.parsed + b2.parsed]
             ELSE fields_from(view_name, fs, f, a + 1, b2.map, n + b1.parsed + b2.parsed)

view_type_fields(view_name, original_ty_fields) ==
    fields_from(view_name, original_ty_fields, 1, 1, EmptyMap, 0)

\* The three closures over fields.iter(): `ord` is the order in which the
\* HashMap yields its keys.
view_field_decl(field_name, entry) ==
    [vis |-> entry.vis, name |-> field_name,
     lifetime |-> IF entry.share = Ref THEN REF_LIFETIME ELSE MUT_LIFETIME,
     mutable |-> entry.share = Mut,
     ty |-> entry.ty]

view_field_init(field_name, entry, base) ==
    [name |-> field_name, mutable |-> entry.share = Mut, base |-> base]

\* A view type that is always public.
construct_view_type_pub(view_name, view_fields, ord, vis, gs, where_clause) ==
    [item |-> "struct",
     attrs |-> <<"allow(snake_case)">>,
     vis |-> "pub",
     name |-> view_name,
     generics |-> <<LifetimeParam(REF_LIFETIME), LifetimeParam(MUT_LIFETIME)>> \o gs,
     where_clause |-> where_clause,
     fields |-> [i \in DOMAIN ord |-> view_field_decl(ord[i], view_fields[ord[i]])],
     marker |-> <<REF_LIFETIME, MUT_LIFETIME>>]

construct_view_type(view_name, view_fields, ord, vis, gs, where_clause) ==
    [item |-> "struct",
     attrs |-> <<"allow(snake_case)">>,
     vis |-> vis,
     name |-> view_name,
     generics |-> <<LifetimeParam(REF_LIFETIME), LifetimeParam(MUT_LIFETIME)>> \o gs,
     where_clause |-> where_clause,
     fields |-> [i \in DOMAIN ord |-> view_field_decl(ord[i], view_fields[ord[i]])],
     marker |-> <<REF_LIFETIME, MUT_LIFETIME>>]

\* A reborrow that also narrows the shared scope.
reborrow_ret_narrow_both(view_name, gens_without_bounds) ==
    [name |-> view_name,
     args |-> <<LifetimeParam(BRW_LIFETIME), LifetimeParam(BRW_LIFETIME)>>
                  \o gens_without_bounds]

\* The return type of the reborrow method, line 248.
reborrow_ret(view_name, gens_without_bounds) ==
    [name |-> view_name,
     args |-> <<LifetimeParam(REF_LIFETIME), LifetimeParam(BRW_LIFETIME)>>
                  \o gens_without_bounds]

construct_view_type_impl(view_name, view_fields, ord, gs, gens_without_bounds, where_clause) ==
    [item |-> "impl",
     generics |-> <<LifetimeParam(REF_LIFETIME), LifetimeParam(MUT_LIFETIME)>> \o gs,
     self_ty |-> [name |-> view_name,
                  args |-> <<LifetimeParam(REF_LIFETIME), LifetimeParam(MUT_LIFETIME)>>
                               \o gens_without_bounds],
     where_clause |-> where_clause,
     method |-> [vis |-> "pub",
                 name |-> "reborrow",
                 generics |-> <<BRW_LIFETIME>>,
                 receiver |-> [lifetime |-> BRW_LIFETIME, mutable |-> TRUE],
                 ret |-> reborrow_ret(view_name, gens_without_bounds),
                 body |-> [name |-> view_name,
                           fields |-> [i \in DOMAIN ord |->
                               view_field_init(ord[i], view_fields[ord[i]], "self")]]]]

construct_view_type_ctor(view_name, view_fields, ord) ==
    [item |-> "macro_rules",
     attrs |-> <<"macro_export">>,
     name |-> <<view_name, "_ctor">>,
     params |-> <<"$e: expr">>,
     body |-> [name |-> view_name,
               fields |-> [i \in DOMAIN ord |->
                   view_field_init(ord[i], view_fields[ord[i]], "$e")]]]

\* e.to_compile_error()
compile_error(e) == [item |-> "compile_error", error |-> e]

-----------------------------------------------------------------------------
(* views_derive_impl, statement by statement *)

\* The statements of lines 59 and 60 in the opposite order.
GuardAfterNames ==
    /\ pc = "start"
    /\ gens_with_bounds' = input.generics.params
    /\ gens' = elide_generics_bounds(input.generics.params)
    /\ LET r == view_type_names_from_attrs(input.attrs)
           g == guard_named_struct(input.data)
       IN  /\ nparsed' = nparsed + r.parsed
           /\ IF ~r.ok THEN fields' = fields /\ pc' = "err" /\ error' = "syntax"
              ELSE IF ~g.ok THEN fields' = fields /\ pc' = "err" /\ error' = "shape"
              ELSE fields' = g.fields /\ pc' = "names" /\ error' = error
    /\ UNCHANGED <<input, view_type_names, pending, view_structs, to_emit, result,
                   output, pass, first_output, view>>

\* lines 57-59
Guard ==
    /\ pc = "start"
    /\ gens_with_bounds' = input.generics.params
    /\ gens' = elide_generics_bounds(input.generics.params)
    /\ LET g == guard_named_struct(input.data)
       IN  IF g.ok
           THEN fields' = g.fields /\ pc' = "names" /\ error' = error
           ELSE fields' = fields /\ pc' = "err" /\ error' = "shape"
    /\ UNCHANGED <<input, view_type_names, pending, view_structs, to_emit, result,
                   output, nparsed, pass, first_output, view>>

\* lines 60-62
Names ==
    /\ pc = "names"
    /\ LET r == view_type_names_from_attrs(input.attrs)
       IN  /\ nparsed' = nparsed + r.parsed
           /\ IF r.ok
              THEN /\ view_type_names' = r.names
                   /\ pending' = r.names
                   /\ pc' = "resolve"
                   /\ error' = error
              ELSE /\ UNCHANGED <<view_type_names, pending>>
                   /\ pc' = "err"
                   /\ error' = "syntax"
    /\ UNCHANGED <<input, gens_with_bounds, gens, fields, view_structs, to_emit,
                   result, output, pass, first_output, view>>

\* lines 63-66, one iteration; the HashSet yields its names in any order
Resolve ==
    /\ pc = "resolve"
    /\ \E view_name \in pending :
         LET r == view_type_fields(view_name, fields)
         IN  /\ nparsed' = nparsed + r.parsed
             /\ IF r.ok
                THEN /\ view_structs' = MapInsert(view_structs, view_name, r.map)
                     /\ pending' = pending \ {view_name}
                     /\ pc' = pc
                     /\ error' = error
                ELSE /\ UNCHANGED <<view_structs, pending>>
                     /\ pc' = "err"
                     /\ error' = "syntax"
    /\ UNCHANGED <<input, gens_with_bounds, gens, fields, view_type_names, to_emit,
                   result, output, pass, first_output, view>>

\* line 68 and the start of the loop of line 69
BeginEmit ==
    /\ pc = "resolve"
    /\ pending = {}
    /\ result' = <<>>
    /\ to_emit' = DOMAIN view_structs
    /\ pc' = "emit"
    /\ UNCHANGED <<input, gens_with_bounds, gens, fields, view_type_names, pending,
                   view_structs, error, output, nparsed, pass, first_output, view>>

\* An emission loop that rejects a view without fields.
EmitRejectingEmpty ==
    /\ pc = "emit"
    /\ \E view_name \in to_emit :
         \E ord \in IterOrders(DOMAIN view_structs[view_name]) :
           LET view_fields == view_structs[view_name]
               the_struct == construct_view_type(view_name, view_fields, ord, input.vis,
                                 gens_with_bounds, input.generics.where_clause)
               the_impl == construct_view_type_impl(view_name, view_fields, ord,
                                 gens_with_bounds, gens, input.generics.where_clause)
               the_ctor == construct_view_type_ctor(view_name, view_fields, ord)
           IN  IF DOMAIN view_fields = {}
               THEN pc' = "err" /\ error' = "syntax" /\ UNCHANGED <<result, to_emit>>
               ELSE /\ result' = result \o <<the_struct, the_impl, the_ctor>>
                    /\ to_emit' = to_emit \ {view_name}
                    /\ UNCHANGED <<pc, error>>
    /\ UNCHANGED <<input, gens_with_bounds, gens, fields, view_type_names, pending,
                   view_structs, output, nparsed, pass, first_output, view>>

\* lines 69-91, one iteration; the HashMaps yield their entries in any order
Emit ==
    /\ pc = "emit"
    /\ \E view_name \in to_emit :
         \E ord \in IterOrders(DOMAIN view_structs[view_name]) :
           LET view_fields == view_structs[view_name]
               the_struct == construct_view_type(view_name, view_fields, ord, input.vis,
                                 gens_with_bounds, input.generics.where_clause)
               the_impl == construct_view_type_impl(view_name, view_fields, ord,
                                 gens_with_bounds, gens, input.generics.where_clause)
               the_ctor == construct_view_type_ctor(view_name, view_fields, ord)
           IN  /\ result' = result \o <<the_struct, the_impl, the_ctor>>
               /\ to_emit' = to_emit \ {view_name}
    /\ UNCHANGED <<input, pc, gens_with_bounds, gens, fields, view_type_names, pending,
                   view_structs, error, output, nparsed, pass, first_output, view>>

\* line 93
Return ==
    /\ pc = "emit"
    /\ to_emit = {}
    /\ pc' = "ok"
    /\ UNCHANGED <<input, gens_with_bounds, gens, fields, view_type_names, pending,
                   view_structs, to_emit, result, error, output, nparsed, pass,
                   first_output, view>>

\* views_derive, lines 51-53
Deliver ==
    /\ pc \in {"ok", "err"}
    /\ output' = IF pc = "ok" THEN result ELSE <<compile_error(error)>>
    /\ pc' = "returned"
    /\ UNCHANGED <<input, gens_with_bounds, gens, fields, view_type_names, pending,
                   view_structs, to_emit, result, error, nparsed, pass, first_output,
                   view>>

Next == Guard \/ Names \/ Resolve \/ BeginEmit \/ Emit \/ Return \/ Deliver

Spec == Init /\ [][Next]_vars

-----------------------------------------------------------------------------
(* A second expansion of the same record (a rebuild) *)

Rerun ==
    /\ pc = "returned"
    /\ pass = 1
    /\ pass' = 2
    /\ first_output' = output
    /\ input' = input
    /\ pc' = "start"
    /\ gens_with_bounds' = <<>>
    /\ gens' = <<>>
    /\ fields' = <<>>
    /\ view_type_names' = {}
    /\ pending' = {}
    /\ view_structs' = EmptyMap
    /\ to_emit' = {}
    /\ result' = <<>>
    /\ error' = "none"
    /\ output' = <<>>
    /\ nparsed' = 0
    /\ view' = view

NextRebuild == Next \/ Rerun

SpecRebuild == Init /\ [][NextRebuild]_vars

-----------------------------------------------------------------------------
(* The emitted items at run time *)

ItemsOf(kind) == {output[k] : k \in {j \in DOMAIN output : output[j].item = kind}}

\* The value of a lifetime argument where '__ref__, '__mut__ and '__brw__
\* stand for the scopes r, m and b.
ScopeOf(lifetime, r, m, b) ==
    IF lifetime.name = REF_LIFETIME THEN r
    ELSE IF lifetime.name = MUT_LIFETIME THEN m
    ELSE b

\* The struct expression `body` typed as the_struct<r, m, ..>: each field
\* holds a reference of the scope its declaration (lines 195, 198) names.
Instance(the_struct, body, r, m) ==
    LET names == {body.fields[i].name : i \in DOMAIN body.fields}
        decl(f) == CHOOSE d \in Elems(the_struct.fields) : d.name = f
    IN  [name |-> the_struct.name, ref_scope |-> r, mut_scope |-> m,
         bound |-> [f \in names |-> ScopeOf([name |-> decl(f).lifetime], r, m, 0)]]

\* An expansion of the constructor macro (lines 281-288) on an owner
\* borrowed for the scopes r and m.
Construct ==
    /\ pc = "returned"
    /\ error = "none"
    /\ view = NoView
    /\ \E the_ctor \in ItemsOf("macro_rules"), the_struct \in ItemsOf("struct") :
         \E r \in 1..MaxScope, m \in 1..MaxScope :
           /\ the_struct.name = the_ctor.body.name
           /\ LET v == Instance(the_struct, the_ctor.body, r, m)
              IN  view' = [name |-> v.name, ref_scope |-> r, mut_scope |-> m,
                           bound |-> v.bound, depth |-> 0, orig_ref |-> r,
                           orig_fields |-> DOMAIN v.bound, last_brw |-> 0]
    /\ UNCHANGED <<input, pc, gens_with_bounds, gens, fields, view_type_names, pending,
                   view_structs, to_emit, result, error, output, nparsed, pass,
                   first_output>>

\* A call of the emitted reborrow method (lines 248-253) on the current
\* instance; `brw` is the scope of the `&'__brw__ mut self` borrow, which
\* the instance's own scopes outlive.
Reborrow ==
    /\ view # NoView
    /\ view.depth < MaxDepth
    /\ \E the_impl \in ItemsOf("impl"), the_struct \in ItemsOf("struct") :
         \E brw \in 1..MaxScope :
           /\ the_impl.self_ty.name = view.name
           /\ the_struct.name = the_impl.method.ret.name
           /\ brw <= view.ref_scope
           /\ brw <= view.mut_scope
           /\ LET ret == the_impl.method.ret
                  r == ScopeOf(ret.args[1], view.ref_scope, view.mut_scope, brw)
                  m == ScopeOf(ret.args[2], view.ref_scope, view.mut_scope, brw)
                  v == Instance(the_struct, the_impl.method.body, r, m)
              IN  view' = [view EXCEPT !.ref_scope = r, !.mut_scope = m,
                                       !.bound = v.bound, !.depth = @ + 1,
                                       !.last_brw = brw]
    /\ UNCHANGED <<input, pc, gens_with_bounds, gens, fields, view_type_names, pending,
                   view_structs, to_emit, result, error, output, nparsed, pass,
                   first_output>>

\* Records that declare the views A and B and carry at most one attribute
\* on each field.
InitView ==
    /\ \E b \in 0..1, c \in 0..1, sig \in Signatures :
         \E xa \in [1..b -> FieldAttrs], ya \in [1..c -> FieldAttrs] :
           input = DeriveInput(sig, <<Attr(VIEW_AS, ArgsAB)>>, "named", xa, ya)
    /\ Fresh
    /\ pass = 1
    /\ first_output = <<>>

NextView == Next \/ Construct \/ Reborrow

SpecView == InitView /\ [][NextView]_vars

-----------------------------------------------------------------------------
(* What the input says, read off its tokens without the parser *)

ViewIdents == {"A", "B"}
ViewKeys == {VIEW_AS, REF_IN, MUT_IN}

\* tokens is empty or one parenthesized list ident , ident , ...
IsIdentList(tokens) ==
    \/ tokens = <<>>
    \/ /\ Len(tokens) = 1
       /\ tokens[1].t = "paren"
       /\ \A k \in DOMAIN tokens[1].inner :
            IF k % 2 = 1 THEN tokens[1].inner[k].t = "ident"
                         ELSE tokens[1].inner[k] = Comma

Lists(attr, v) ==
    /\ attr.tokens # <<>>
    /\ \E k \in DOMAIN attr.tokens[1].inner : attr.tokens[1].inner[k] = Id(v)

Annotated(field, key, v) ==
    \E i \in DOMAIN field.attrs : field.attrs[i].path = key /\ Lists(field.attrs[i], v)

Member(field, v) == Annotated(field, REF_IN, v) \/ Annotated(field, MUT_IN, v)
DualMode(field, v) == Annotated(field, REF_IN, v) /\ Annotated(field, MUT_IN, v)

\* The mode of the last annotation of the field that names v.
LastMode(field, v) ==
    LET I == {i \in DOMAIN field.attrs :
                field.attrs[i].path \in {REF_IN, MUT_IN} /\ Lists(field.attrs[i], v)}
        last == CHOOSE i \in I : \A j \in I : j <= i
    IN  IF field.attrs[last].path = REF_IN THEN Ref ELSE Mut

RecordFields == Elems(input.data.named)
IsNamed == input.data.shape = "named"

DeclaredViews ==
    {v \in ViewIdents :
        \E i \in DOMAIN input.attrs :
            input.attrs[i].path = VIEW_AS /\ Lists(input.attrs[i], v)}

HasMalformed ==
    \/ \E i \in DOMAIN input.attrs :
         input.attrs[i].path = VIEW_AS /\ ~IsIdentList(input.attrs[i].tokens)
    \/ \E f \in RecordFields : \E i \in DOMAIN f.attrs :
         f.attrs[i].path \in {REF_IN, MUT_IN} /\ ~IsIdentList(f.attrs[i].tokens)

ExpectedEntry(f, share) == [vis |-> f.vis, share |-> share, ty |-> f.ty]

ResultItems(kind) == {result[k] : k \in {j \in DOMAIN result : result[j].item = kind}}
Count(kind, v) ==
    Cardinality({k \in DOMAIN result :
        /\ result[k].item = kind
        /\ CASE kind = "struct" -> result[k].name = v
             [] kind = "impl" -> result[k].self_ty.name = v
             [] OTHER -> result[k].name = <<v, "_ctor">>})

Succeeded == pc = "returned" /\ error = "none"

-----------------------------------------------------------------------------
(* C1 *)

\* C1: for every resolved view V in which no field is annotated under both
\* modes, the field map, and the fields of the emitted view type V, are
\* exactly the record fields annotated ref_in(..V..) or mut_in(..V..), each
\* with the mode of its annotation and the type and visibility of the
\* record field.
C1_ViewFieldsExact ==
    /\ \A v \in DOMAIN view_structs :
         (\A f \in RecordFields : ~DualMode(f, v)) =>
            /\ DOMAIN view_structs[v] = {f.ident : f \in {g \in RecordFields : Member(g, v)}}
            /\ \A f \in RecordFields :
                 Member(f, v) =>
                    view_structs[v][f.ident] =
                        ExpectedEntry(f, IF Annotated(f, REF_IN, v) THEN Ref ELSE Mut)
    /\ \A s \in ResultItems("struct") :
         (\A f \in RecordFields : ~DualMode(f, s.name)) =>
            Elems(s.fields) =
                { [vis |-> f.vis, name |-> f.ident, ty |-> f.ty,
                   lifetime |-> IF Annotated(f, REF_IN, s.name)
                                THEN REF_LIFETIME ELSE MUT_LIFETIME,
                   mutable |-> Annotated(f, MUT_IN, s.name)]
                  : f \in {g \in RecordFields : Member(g, s.name)} }

C1_Witness ==
    /\ Succeeded
    /\ \E s \in ItemsOf("struct") :
         /\ Len(s.fields) = 1
         /\ s.fields[1].name = "y"
         /\ s.fields[1].mutable
         /\ \E f \in RecordFields : f.ident = "x" /\ f.attrs # <<>> /\ ~Member(f, s.name)

-----------------------------------------------------------------------------
(* C2 *)

\* C2: on a successful pass the views with artifacts are exactly the
\* distinct names listed in the view_as annotations: each gets one view
\* type, one reborrow impl and one constructor template, also when it has
\* no field or is listed several times; a name found only in field
\* annotations gets nothing.
C2_DeclaredViewsEmitted ==
    (pc \in {"ok", "returned"} /\ error = "none") =>
        /\ \A v \in DeclaredViews :
             Count("struct", v) = 1 /\ Count("impl", v) = 1 /\ Count("macro_rules", v) = 1
        /\ \A v \in ViewIdents \ DeclaredViews :
             Count("struct", v) = 0 /\ Count("impl", v) = 0 /\ Count("macro_rules", v) = 0
        /\ Len(result) = 3 * Cardinality(DeclaredViews)
        /\ pc = "returned" => output = result

C2_Witness ==
    /\ Succeeded
    /\ DeclaredViews = {"A"}
    /\ \E i \in DOMAIN input.attrs : input.attrs[i].tokens = ArgsAA
    /\ Cardinality({i \in DOMAIN input.attrs : input.attrs[i].path = VIEW_AS}) = 2
    /\ \E f \in RecordFields : Member(f, "B") /\ ~Member(f, "A")
    /\ \E s \in ItemsOf("struct") : s.name = "A" /\ s.fields = <<>>
    /\ Len(output) = 3

-----------------------------------------------------------------------------
(* C4 *)

-----------------------------------------------------------------------------
(* C5 *)

\* C5 (as claimed): a named-field record with a malformed view_as, ref_in or
\* mut_in annotation never completes the pass successfully, however many
\* views it declares.
C5_MalformedAlwaysAborts ==
    (IsNamed /\ HasMalformed) => pc # "ok" /\ ~Succeeded

-----------------------------------------------------------------------------
(* C6 *)

\* C6: a declaration that is not a named-field struct fails with the
\* unsupported-shape error before any annotation is parsed and before any
\* view is resolved, also when its annotations are malformed.
C6_ShapeCheckedFirst ==
    ~IsNamed =>
        /\ nparsed = 0
        /\ view_type_names = {}
        /\ view_structs = EmptyMap
        /\ pc \in {"start", "err", "returned"}
        /\ pc # "start" => error = "shape"
        /\ pc = "returned" => output = <<compile_error("shape")>>

C6_Witness ==
    /\ ~IsNamed
    /\ HasMalformed
    /\ \E i \in DOMAIN input.attrs :
         input.attrs[i].path = VIEW_AS /\ ~IsIdentList(input.attrs[i].tokens)
    /\ pc = "returned"
    /\ output = <<compile_error("shape")>>

-----------------------------------------------------------------------------
(* C7 *)

\* C7 (as claimed): a second pass over the same record emits the same
\* artifacts in the same order as the first.
C7_SameOutputOnRebuild ==
    (pass = 2 /\ pc = "returned") => output = first_output

-----------------------------------------------------------------------------
(* C8 *)

\* The parameters with their bounds removed.
NamesOnly(gs) == [i \in DOMAIN gs |-> [gs[i] EXCEPT !.bounds = <<>>]]

ScopeParams == <<LifetimeParam(REF_LIFETIME), LifetimeParam(MUT_LIFETIME)>>

\* C8 (as claimed): the view type's generic parameters after the two scope
\* parameters are the record's parameters with their bounds stripped.
C8_StructParamsStripped ==
    \A s \in ResultItems("struct") :
        s.generics = ScopeParams \o NamesOnly(input.generics.params)

\* C8 (amended): the view type declares the record's generic parameters
\* verbatim, bounds included, after the two scope parameters, and copies
\* the where clause; the stripped list (type and lifetime parameters
\* without bounds, const parameters unchanged) appears only as the generic
\* arguments of the view type in the reborrow impl (self type and return
\* type), whose own parameter list again keeps the bounds.
C8_StructParamsVerbatim ==
    /\ \A s \in ResultItems("struct") :
         /\ s.generics = ScopeParams \o input.generics.params
         /\ s.where_clause = input.generics.where_clause
    /\ \A m \in ResultItems("impl") :
         /\ m.generics = ScopeParams \o input.generics.params
         /\ m.where_clause = input.generics.where_clause
         /\ m.self_ty.args = ScopeParams \o NamesOnly(input.generics.params)
         /\ SubSeq(m.method.ret.args, 3, Len(m.method.ret.args))
                = NamesOnly(input.generics.params)

C8_Witness ==
    /\ Succeeded
    /\ \E s \in ItemsOf("struct") :
         \E i \in DOMAIN s.generics : s.generics[i].bounds # <<>>
    /\ \E m \in ItemsOf("impl") :
         /\ Len(m.self_ty.args) = 5
         /\ \A i \in DOMAIN m.self_ty.args : m.self_ty.args[i].bounds = <<>>

-----------------------------------------------------------------------------
(* C9 *)

\* C9 (as claimed): the view type, the reborrow method and the constructor
\* template all carry the record's visibility; for a record that is not
\* public none of them is public or exported.
C9_AllCarryRecordVisibility ==
    /\ \A s \in ResultItems("struct") : s.vis = input.vis
    /\ \A m \in ResultItems("impl") : m.method.vis = input.vis
    /\ \A c \in ResultItems("macro_rules") :
         ("macro_export" \in Elems(c.attrs)) <=> (input.vis = "pub")

\* C9 (amended): only the view type carries the record's visibility; the
\* reborrow method is always `pub` and the constructor template is always
\* exported with #[macro_export], whatever the record's visibility.
C9_OnlyStructCarriesVisibility ==
    /\ \A s \in ResultItems("struct") : s.vis = input.vis
    /\ \A m \in ResultItems("impl") : m.method.vis = "pub"
    /\ \A c \in ResultItems("macro_rules") : "macro_export" \in Elems(c.attrs)

C9_Witness ==
    /\ Succeeded
    /\ input.vis = "inherited"
    /\ \E s \in ItemsOf("struct") : s.vis = "inherited"
    /\ \E m \in ItemsOf("impl") : m.method.vis = "pub"
    /\ \E c \in ItemsOf("macro_rules") : c.attrs = <<"macro_export">>

-----------------------------------------------------------------------------
(* C10 *)

\* Every view-related annotation of the record is a well-formed list.
AllWellFormed == ~HasMalformed

\* C10: a field annotated for a declared view V under both modes raises no
\* error; it appears once in view V, with the mode of its last annotation
\* that names V; the other fields of V are as annotated.
C10_LastAnnotationWins ==
    /\ (IsNamed /\ AllWellFormed
          /\ \E f \in RecordFields, v \in DeclaredViews : DualMode(f, v))
       => error = "none"
    /\ \A v \in DOMAIN view_structs : \A f \in RecordFields :
         /\ DualMode(f, v) =>
              /\ f.ident \in DOMAIN view_structs[v]
              /\ view_structs[v][f.ident] = ExpectedEntry(f, LastMode(f, v))
         /\ (Member(f, v) /\ ~DualMode(f, v)) =>
              /\ f.ident \in DOMAIN view_structs[v]
              /\ view_structs[v][f.ident] =
                    ExpectedEntry(f, IF Annotated(f, REF_IN, v) THEN Ref ELSE Mut)
         /\ ~Member(f, v) => f.ident \notin DOMAIN view_structs[v]
    /\ \A s \in ResultItems("struct") : \A f \in RecordFields :
         DualMode(f, s.name) =>
            /\ Cardinality({k \in DOMAIN s.fields : s.fields[k].name = f.ident}) = 1
            /\ \A k \in DOMAIN s.fields :
                 s.fields[k].name = f.ident =>
                    s.fields[k].mutable = (LastMode(f, s.name) = Mut)

C10_Witness ==
    /\ Succeeded
    /\ \E f \in RecordFields :
         /\ Len(f.attrs) = 2
         /\ f.attrs[1] = Attr(MUT_IN, ArgsAB)
         /\ f.attrs[2] = Attr(REF_IN, ArgsA)
         /\ \E s \in ItemsOf("struct") :
              s.name = "A" /\ Len(s.fields) = 1 /\ ~s.fields[1].mutable
         /\ \E s \in ItemsOf("struct") :
              s.name = "B" /\ Len(s.fields) = 1 /\ s.fields[1].mutable

-----------------------------------------------------------------------------
(* C3 *)

\* C3: after n >= 1 nested reborrows of a view built with scopes (R, M) the
\* shared scope is still R, the exclusive scope is that of the innermost
\* reborrow, every Ref field is bound to R and every Mut field to the
\* innermost scope, and the fields are those of the original view.
C3_ReborrowKeepsSharedScope ==
    view.depth >= 1 =>
        /\ view.ref_scope = view.orig_ref
        /\ view.mut_scope = view.last_brw
        /\ DOMAIN view.bound = view.orig_fields
        /\ DOMAIN view.bound = DOMAIN view_structs[view.name]
        /\ \A f \in DOMAIN view.bound :
             view.bound[f] = IF view_structs[view.name][f].share = Ref
                             THEN view.orig_ref ELSE view.last_brw

C3_Witness ==
    /\ view.depth >= 2
    /\ view.orig_ref > view.last_brw
    /\ \E f, g \in DOMAIN view.bound :
         /\ view_structs[view.name][f].share = Ref
         /\ view_structs[view.name][g].share = Mut
         /\ view.bound[f] = view.orig_ref
         /\ view.bound[g] = view.last_brw

====
